---- MODULE Spec2Model ----
(***************************************************************************)
(* Model of src/frontend/simulator.js: the Service state machine and the   *)
(* CSMSimulator orchestrator (commands, setTimeout completions, the        *)
(* setInterval monitoring tick, the bounded event and alert logs).         *)
(*                                                                         *)
(* Numbers.  cpu, memory and throughput are JavaScript floats.  cpu and    *)
(* memory are kept here in tenths (fixed point): cpu = 500 is 50.0.        *)
(* throughput, which the code halves, is a dyadic number of tenths: the    *)
(* record [n |-> 8075, e |-> 1] is 8075 / 2 tenths, 403.75; e is 0 or n is *)
(* odd, so that equal numbers are equal records.                           *)
(* Math.random() is a draw from RandomValues, also in tenths, so that      *)
(* (Math.random() - 0.5) * 10 is exactly (r - 5) * 10 tenths.              *)
(*                                                                         *)
(* Time.  There is no clock.  A pending setTimeout is an entry of timers   *)
(* (in scheduling order); it may fire when no entry scheduled before it    *)
(* has the same delay.  Timers of one delay run in the order they were     *)
(* set, in the browser and in Node.js.  Between timers of different delays *)
(* the order depends on the time that passed between the calls and, in     *)
(* Node.js, which runs the due timers of one delay in a row, on the timers *)
(* of the caller; every such order is allowed.  Date values (timestamp,    *)
(* createdAt, lastHeartbeat) are left out.                                 *)
(*                                                                         *)
(* Messages.  A log message is a record: the template literal of the       *)
(* source, the service id substituted into it and the number substituted   *)
(* into it (0 when the template has none).  Text gives the string the      *)
(* template literal evaluates to.                                          *)
(***************************************************************************)
EXTENDS Integers, Sequences, FiniteSets, TLC

VARIABLES
    services,           \* this.services: the own entries, in the order they were added
    timers,             \* pending setTimeout callbacks of the Services
    eventLog,           \* this.eventLog
    alerts,             \* this.alerts
    metrics,            \* this.metrics
    simulationRunning,  \* this.simulationRunning
    monitorInterval,    \* this.monitorInterval (0: undefined)
    intervals,          \* handles of the setInterval timers that are live
    eventHistory,       \* history: every entry ever pushed on eventLog
    alertHistory,       \* history: every entry ever pushed on alerts
    ticks,              \* history: number of monitoring ticks that have run
    call                \* history: the handler that ran last

vars == <<services, timers, eventLog, alerts, metrics, simulationRunning,
          monitorInterval, intervals, eventHistory, alertHistory, ticks, call>>

----------------------------------------------------------------------------
(* Bounds of the model *)

MaxEvents == 3

MaxTicks == 1

MaxLogEvents == 104

LogPeriod == 7

MaxSvcEvents == 6

MaxMonTicks == 8

MaxMonFaults == 1

(* Program constants *)

EventLogCap == 100

AlertCap == 50

ProvisionDelay == 2000

ScaleDelay == 1500

RecoverDelay == 1000

\* ids the commands are called with; "constructor" is a name every object
\* literal inherits from Object.prototype
ServiceIds == {"svc-1", "constructor"}

\* the names for which {}[name] is truthy: the properties of Object.prototype
ObjectPrototypeKeys ==
    {"constructor", "toString", "toLocaleString", "valueOf", "hasOwnProperty",
     "isPrototypeOf", "propertyIsEnumerable", "__proto__", "__defineGetter__",
     "__defineSetter__", "__lookupGetter__", "__lookupSetter__"}

\* arguments of scaleService
ScaleArgs == {0, 3}

\* values of Math.random(), in tenths
RandomValues == {0, 9}

Draws == RandomValues \X RandomValues \X RandomValues

----------------------------------------------------------------------------
(* Dyadic numbers of tenths: [n, e] is n / 2^e tenths *)

RECURSIVE Pow2(_)
Pow2(e) == IF e = 0 THEN 1 ELSE 2 * Pow2(e - 1)

\* n / 2^e in lowest terms
RECURSIVE Reduced(_, _)
Reduced(n, e) ==
    IF e > 0 /\ n % 2 = 0 THEN Reduced(n \div 2, e - 1) ELSE [n |-> n, e |-> e]

\* k tenths
Tenths(k) == [n |-> k, e |-> 0]

\* x * 0.5
Half(x) == Reduced(x.n, x.e + 1)

\* x * 2
Twice(x) == Reduced(2 * x.n, x.e)

\* x + k tenths
Plus(x, k) == Reduced(x.n + k * Pow2(x.e), x.e)

\* x <= y
AtMost(x, y) == x.n * Pow2(y.e) <= y.n * Pow2(x.e)

\* Math.max(x, y) and Math.min(x, y)
MaxOf(x, y) == IF AtMost(y, x) THEN x ELSE y

MinOf(x, y) == IF AtMost(x, y) THEN x ELSE y

----------------------------------------------------------------------------
(* class Service *)

NewService(id) ==
    [id |-> id, state |-> "provisioning", instances |-> 1, cpu |-> 500,
     memory |-> 600, throughput |-> Tenths(10000), errors |-> 0]

Max(a, b) == IF a >= b THEN a ELSE b

Min(a, b) == IF a <= b THEN a ELSE b

Last(seq) == seq[Len(seq)]

\* r = <<r1, r2, r3>>: the three Math.random() values, in call order
updateMetrics(s, r) ==
    IF s.state = "running"
    THEN [s EXCEPT
            !.cpu = Min(950, Max(400, s.cpu + (r[1] - 5) * 10)),
            !.memory = Min(950, Max(500, s.memory + (r[2] - 5) * 8)),
            !.throughput = MaxOf(Tenths(8000),
                                 MinOf(Tenths(20000),
                                       Plus(s.throughput, (r[3] - 5) * 100)))]
    ELSE s

Timer(id, kind, n) == [id |-> id, kind |-> kind, n |-> n]

\* the synchronous part of a method: the Service after it, and the timeouts it sets
provision(s) ==
    IF s.state = "provisioning"
    THEN [svc |-> s, sched |-> <<Timer(s.id, "provision", 0)>>]
    ELSE [svc |-> s, sched |-> <<>>]

\* scale without its setTimeout
scale_NoTimeout(s, newInstances) ==
    IF s.state = "running"
    THEN [svc |-> [s EXCEPT !.state = "scaling"], sched |-> <<>>]
    ELSE [svc |-> s, sched |-> <<>>]

\* scale without its test of the state
scale_NoStateCheck(s, newInstances) ==
    [svc |-> [s EXCEPT !.state = "scaling"],
     sched |-> <<Timer(s.id, "scale", newInstances)>>]

scale(s, newInstances) ==
    IF s.state = "running"
    THEN [svc |-> [s EXCEPT !.state = "scaling"],
          sched |-> <<Timer(s.id, "scale", newInstances)>>]
    ELSE [svc |-> s, sched |-> <<>>]

\* injectFault without its test of the state
injectFaultSvc_NoStateCheck(s) ==
    [s EXCEPT !.state = "degraded",
              !.errors = s.errors + 1,
              !.cpu = s.cpu + 300,
              !.throughput = Half(s.throughput)]

\* injectFault without the halving of the throughput
injectFaultSvc_KeepsThroughput(s) ==
    IF s.state = "running"
    THEN [s EXCEPT !.state = "degraded",
                   !.errors = s.errors + 1,
                   !.cpu = s.cpu + 300]
    ELSE s

injectFaultSvc(s) ==
    IF s.state = "running"
    THEN [s EXCEPT !.state = "degraded",
                   !.errors = s.errors + 1,
                   !.cpu = s.cpu + 300,
                   !.throughput = Half(s.throughput)]
    ELSE s

recover(s) ==
    IF s.state = "degraded"
    THEN [svc |-> s, sched |-> <<Timer(s.id, "recover", 0)>>]
    ELSE [svc |-> s, sched |-> <<>>]

terminate(s) == [s EXCEPT !.state = "terminated", !.instances = 0]

\* the setTimeout callbacks
provisionTimeout(s, r) == updateMetrics([s EXCEPT !.state = "running"], r)

\* the scale callback without the assignment of instances
scaleTimeout_KeepsInstances(s, newInstances, r) ==
    updateMetrics([s EXCEPT !.state = "running",
                            !.cpu = Max(200, s.cpu - 100 * (newInstances - 1))], r)

scaleTimeout(s, newInstances, r) ==
    updateMetrics([s EXCEPT !.instances = newInstances,
                            !.state = "running",
                            !.cpu = Max(200, s.cpu - 100 * (newInstances - 1))], r)

\* the recover callback without the reset of errors
recoverTimeout_KeepsErrors(s, r) ==
    updateMetrics([s EXCEPT !.state = "running",
                            !.cpu = Max(400, s.cpu - 200),
                            !.throughput = Tenths(10000)], r)

recoverTimeout(s, r) ==
    updateMetrics([s EXCEPT !.state = "running",
                            !.errors = 0,
                            !.cpu = Max(400, s.cpu - 200),
                            !.throughput = Tenths(10000)], r)

Delay(kind) ==
    CASE kind = "provision" -> ProvisionDelay
      [] kind = "scale" -> ScaleDelay
      [] kind = "recover" -> RecoverDelay

TimeoutOps == {"provision", "scale", "recover"}

----------------------------------------------------------------------------
(* Strings *)

\* the places of str where word begins
Positions(str, word) ==
    {i \in 1..(Len(str) - Len(word) + 1) : SubSeq(str, i, i + Len(word) - 1) = word}

\* str.includes(word)
StringIncludes(str, word) == Positions(str, word) # {}

Least(S) == CHOOSE i \in S : \A j \in S : i <= j

\* a template literal evaluated: its placeholders ${...} replaced, from left
\* to right, by the strings of values
RECURSIVE Substitute(_, _)
Substitute(template, values) ==
    IF values = <<>> \/ Positions(template, "${") = {} THEN template
    ELSE LET open == Least(Positions(template, "${"))
             close == Least({i \in Positions(template, "}") : i > open})
         IN SubSeq(template, 1, open - 1) \o Head(values)
            \o Substitute(SubSeq(template, close + 1, Len(template)), Tail(values))

\* v.toFixed(1), v in tenths
toFixed(v) == ToString(v \div 10) \o "." \o ToString(v % 10)

DigitChars == {ToString(d) : d \in 0..9}

DigitValue(c) == CHOOSE d \in 0..9 : ToString(d) = c

\* a < b, for decimal numerals without leading zeros
NumeralLess(a, b) ==
    \/ Len(a) < Len(b)
    \/ /\ Len(a) = Len(b)
       /\ \E i \in 1..Len(a) :
             /\ SubSeq(a, 1, i - 1) = SubSeq(b, 1, i - 1)
             /\ DigitValue(SubSeq(a, i, i)) < DigitValue(SubSeq(b, i, i))

\* the property name is an array index: the numeral of an integer of
\* 0 .. 2^32 - 2; an object lists such names first, in ascending order
IsArrayIndex(name) ==
    /\ Len(name) >= 1
    /\ \A i \in 1..Len(name) : SubSeq(name, i, i) \in DigitChars
    /\ Len(name) = 1 \/ SubSeq(name, 1, 1) # "0"
    /\ NumeralLess(name, "4294967295")

----------------------------------------------------------------------------
(* class CSMSimulator: helpers *)

Has(id) == \E i \in 1..Len(services) : services[i].id = id

Index(id) == CHOOSE i \in 1..Len(services) : services[i].id = id

Svc(id) == services[Index(id)]

\* this.services[serviceId] is truthy: an own entry, or a value inherited
\* from Object.prototype (which is no Service)
Truthy(id) == Has(id) \/ id \in ObjectPrototypeKeys

\* getService: "service" for a Service, "null", or "inherited" for a value of
\* Object.prototype
getService(id) ==
    IF Has(id) THEN "service"
    ELSE IF id \in ObjectPrototypeKeys THEN "inherited" ELSE "null"

Msg(text, id, value) == [text |-> text, id |-> id, value |-> value]

\* the string of a message: the id, and the number when the template has
\* one, put into the template literal
Text(message) ==
    Substitute(message.text,
               <<message.id,
                 IF StringIncludes(message.text, ".toFixed(1)}")
                 THEN toFixed(message.value) ELSE ToString(message.value)>>)

\* message.includes(word)
Includes(message, word) == StringIncludes(Text(message), word)

\* logEvent with pop() for shift(): the newest entry is dropped
logEvent_DropsNewest(log, message) ==
    LET pushed == Append(log, [message |-> message])
    IN IF Len(pushed) > EventLogCap THEN SubSeq(pushed, 1, Len(pushed) - 1) ELSE pushed

logEvent(log, message) ==
    LET pushed == Append(log, [message |-> message])
    IN IF Len(pushed) > EventLogCap THEN Tail(pushed) ELSE pushed

addAlert(log, message) ==
    LET pushed == Append(log, [message |-> message,
                               severity |-> IF Includes(message, "CRITICAL")
                                            THEN "critical" ELSE "warning"])
    IN IF Len(pushed) > AlertCap THEN Tail(pushed) ELSE pushed

Called(op, id, n) == call' = [op |-> op, id |-> id, n |-> n]

Logged(message) ==
    /\ eventLog' = logEvent(eventLog, message)
    /\ eventHistory' = Append(eventHistory, [message |-> message])

----------------------------------------------------------------------------
Init ==
    /\ services = <<>>
    /\ timers = <<>>
    /\ eventLog = <<>>
    /\ alerts = <<>>
    /\ metrics = [provisioned |-> 0, running |-> 0, failed |-> 0, recovered |-> 0]
    /\ simulationRunning = FALSE
    /\ monitorInterval = 0
    /\ intervals = {}
    /\ eventHistory = <<>>
    /\ alertHistory = <<>>
    /\ ticks = 0
    /\ call = [op |-> "new", id |-> "", n |-> 0]

provisionService(serviceId) ==
    /\ Called("provisionService", serviceId, 0)
    /\ IF ~Truthy(serviceId)
       THEN LET p == provision(NewService(serviceId))
            IN /\ services' = Append(services, p.svc)
               /\ timers' = timers \o p.sched
               /\ Logged(Msg("Service ${serviceId} provisioning initiated", serviceId, 0))
               /\ metrics' = [metrics EXCEPT !.provisioned = @ + 1]
               /\ UNCHANGED <<alerts, simulationRunning, monitorInterval, intervals,
                              alertHistory, ticks>>
       ELSE UNCHANGED <<services, timers, eventLog, alerts, metrics, simulationRunning,
                        monitorInterval, intervals, eventHistory, alertHistory, ticks>>

scaleService(serviceId, instances) ==
    /\ Called("scaleService", serviceId, instances)
    /\ IF Truthy(serviceId)
       THEN /\ Logged(Msg("Scaling service ${serviceId} to ${instances} instances",
                          serviceId, instances))
            /\ IF Has(serviceId)
               THEN LET m == scale(Svc(serviceId), instances)
                    IN /\ services' = [services EXCEPT ![Index(serviceId)] = m.svc]
                       /\ timers' = timers \o m.sched
               \* an inherited value has no scale method: TypeError, after the log
               ELSE UNCHANGED <<services, timers>>
            /\ UNCHANGED <<alerts, metrics, simulationRunning, monitorInterval, intervals,
                           alertHistory, ticks>>
       ELSE UNCHANGED <<services, timers, eventLog, alerts, metrics, simulationRunning,
                        monitorInterval, intervals, eventHistory, alertHistory, ticks>>

injectFault(serviceId) ==
    /\ Called("injectFault", serviceId, 0)
    /\ IF Has(serviceId)
       THEN LET message == Msg("CRITICAL: Service ${serviceId} in degraded state", serviceId, 0)
            IN /\ services' = [services EXCEPT ![Index(serviceId)] = injectFaultSvc(@)]
               /\ Logged(Msg("FAULT INJECTED: Service ${serviceId} degraded", serviceId, 0))
               /\ alerts' = addAlert(alerts, message)
               /\ alertHistory' = Append(alertHistory, Last(addAlert(<<>>, message)))
               /\ metrics' = [metrics EXCEPT !.failed = @ + 1]
               /\ UNCHANGED <<timers, simulationRunning, monitorInterval, intervals, ticks>>
       \* unknown id: skipped; inherited value: TypeError on the first statement
       ELSE UNCHANGED <<services, timers, eventLog, alerts, metrics, simulationRunning,
                        monitorInterval, intervals, eventHistory, alertHistory, ticks>>

\* recoverService without its test of the state
recoverService_AnyState(serviceId) ==
    /\ Called("recoverService", serviceId, 0)
    /\ IF Has(serviceId)
       THEN LET m == recover(Svc(serviceId))
            IN /\ Logged(Msg("Recovery initiated for service ${serviceId}", serviceId, 0))
               /\ services' = [services EXCEPT ![Index(serviceId)] = m.svc]
               /\ timers' = timers \o m.sched
               /\ metrics' = [metrics EXCEPT !.recovered = @ + 1]
               /\ UNCHANGED <<alerts, simulationRunning, monitorInterval, intervals,
                              alertHistory, ticks>>
       ELSE UNCHANGED <<services, timers, eventLog, alerts, metrics, simulationRunning,
                        monitorInterval, intervals, eventHistory, alertHistory, ticks>>

recoverService(serviceId) ==
    /\ Called("recoverService", serviceId, 0)
    /\ IF Has(serviceId) /\ Svc(serviceId).state = "degraded"
       THEN LET m == recover(Svc(serviceId))
            IN /\ Logged(Msg("Recovery initiated for service ${serviceId}", serviceId, 0))
               /\ services' = [services EXCEPT ![Index(serviceId)] = m.svc]
               /\ timers' = timers \o m.sched
               /\ metrics' = [metrics EXCEPT !.recovered = @ + 1]
               /\ UNCHANGED <<alerts, simulationRunning, monitorInterval, intervals,
                              alertHistory, ticks>>
       \* an inherited value has no state property: the test is false
       ELSE UNCHANGED <<services, timers, eventLog, alerts, metrics, simulationRunning,
                        monitorInterval, intervals, eventHistory, alertHistory, ticks>>

terminateService(serviceId) ==
    /\ Called("terminateService", serviceId, 0)
    /\ IF Has(serviceId)
       THEN /\ services' = [services EXCEPT ![Index(serviceId)] = terminate(@)]
            /\ Logged(Msg("Service ${serviceId} terminated", serviceId, 0))
            /\ UNCHANGED <<timers, alerts, metrics, simulationRunning, monitorInterval,
                           intervals, alertHistory, ticks>>
       \* unknown id: skipped; inherited value: TypeError on the first statement
       ELSE UNCHANGED <<services, timers, eventLog, alerts, metrics, simulationRunning,
                        monitorInterval, intervals, eventHistory, alertHistory, ticks>>

startSimulation ==
    /\ Called("startSimulation", "", 0)
    /\ simulationRunning' = TRUE
    \* setInterval returns a fresh handle; the field always holds the newest one
    /\ monitorInterval' = monitorInterval + 1
    /\ intervals' = intervals \cup {monitorInterval + 1}
    /\ Logged(Msg("CSM Simulation started", "", 0))
    /\ UNCHANGED <<services, timers, alerts, metrics, alertHistory, ticks>>

stopSimulation ==
    /\ Called("stopSimulation", "", 0)
    /\ simulationRunning' = FALSE
    /\ intervals' = intervals \ {monitorInterval}
    /\ Logged(Msg("CSM Simulation stopped", "", 0))
    /\ UNCHANGED <<services, timers, alerts, metrics, monitorInterval, alertHistory, ticks>>

\* the alerts one running Service raises in a tick, after its refresh
TickAlerts(s) ==
    (IF s.cpu > 850
     THEN <<Msg("WARNING: Service ${service.id} high CPU: ${service.cpu.toFixed(1)}%",
                s.id, s.cpu)>>
     ELSE <<>>)
    \o
    (IF s.memory > 850
     THEN <<Msg("WARNING: Service ${service.id} high memory: ${service.memory.toFixed(1)}%",
                s.id, s.memory)>>
     ELSE <<>>)

RECURSIVE AddAlerts(_, _)
AddAlerts(log, messages) ==
    IF messages = <<>> THEN log
    ELSE AddAlerts(addAlert(log, Head(messages)), Tail(messages))

RECURSIVE AlertEntries(_)
AlertEntries(messages) ==
    IF messages = <<>> THEN <<>>
    ELSE <<Last(addAlert(<<>>, Head(messages)))>> \o AlertEntries(Tail(messages))

\* svcs[i] comes before svcs[j] in Object.values: array indices first, in
\* ascending order, then the other names in the order they were added
ListedBefore(svcs, i, j) ==
    IF IsArrayIndex(svcs[i].id)
    THEN IsArrayIndex(svcs[j].id) => NumeralLess(svcs[i].id, svcs[j].id)
    ELSE ~IsArrayIndex(svcs[j].id) /\ i < j

\* Object.values(this.services), as the places of its Services in svcs
ObjectValues(svcs) ==
    [k \in 1..Len(svcs) |->
        CHOOSE i \in 1..Len(svcs) :
            Cardinality({j \in 1..Len(svcs) : ListedBefore(svcs, j, i)}) = k - 1]

\* Object.values(this.services).forEach(...), from the k-th Service listed
\* on; rs[k] are the Math.random() values of the refresh of that Service
RECURSIVE monitorFrom(_, _, _, _)
monitorFrom(k, svcs, msgs, rs) ==
    IF k > Len(svcs) THEN [services |-> svcs, messages |-> msgs]
    ELSE LET i == ObjectValues(svcs)[k]
         IN IF svcs[i].state = "running"
            THEN LET s == updateMetrics(svcs[i], rs[k])
                 IN monitorFrom(k + 1, [svcs EXCEPT ![i] = s], msgs \o TickAlerts(s), rs)
            ELSE monitorFrom(k + 1, svcs, msgs, rs)

\* one firing of a live setInterval timer
monitorServices ==
    /\ intervals # {}
    /\ Called("monitorServices", "", 0)
    /\ \E rs \in [1..Len(services) -> Draws] :
          LET m == monitorFrom(1, services, <<>>, rs)
          IN /\ services' = m.services
             /\ alerts' = AddAlerts(alerts, m.messages)
             /\ alertHistory' = alertHistory \o AlertEntries(m.messages)
    /\ ticks' = ticks + 1
    /\ UNCHANGED <<timers, eventLog, metrics, simulationRunning, monitorInterval,
                   intervals, eventHistory>>

Without(seq, i) == SubSeq(seq, 1, i - 1) \o SubSeq(seq, i + 1, Len(seq))

\* timers[i] can be the next to fire: it is the oldest pending timer of its
\* delay
CanFire(i) == \A j \in 1..(i - 1) : Delay(timers[j].kind) # Delay(timers[i].kind)

Callback(t, s, r) ==
    CASE t.kind = "provision" -> provisionTimeout(s, r)
      [] t.kind = "scale" -> scaleTimeout(s, t.n, r)
      [] t.kind = "recover" -> recoverTimeout(s, r)

\* a pending setTimeout callback runs, once
Timeout(i) ==
    /\ i \in 1..Len(timers)
    /\ CanFire(i)
    /\ Called(timers[i].kind, timers[i].id, timers[i].n)
    /\ \E r \in Draws :
          services' = [services EXCEPT ![Index(timers[i].id)] = Callback(timers[i], @, r)]
    /\ timers' = Without(timers, i)
    /\ UNCHANGED <<eventLog, alerts, metrics, simulationRunning, monitorInterval,
                   intervals, eventHistory, alertHistory, ticks>>

----------------------------------------------------------------------------
\* a command is taken while fewer than MaxEvents entries were logged
Budget == Len(eventHistory) < MaxEvents

Next ==
    \/ \E id \in ServiceIds : Budget /\ provisionService(id)
    \/ \E id \in ServiceIds, n \in ScaleArgs : Budget /\ scaleService(id, n)
    \/ \E id \in ServiceIds : Budget /\ injectFault(id)
    \/ \E id \in ServiceIds : Budget /\ recoverService(id)
    \/ \E id \in ServiceIds : Budget /\ terminateService(id)
    \/ Budget /\ startSimulation
    \/ Budget /\ stopSimulation
    \/ \E i \in 1..Len(timers) : Timeout(i)
    \/ ticks < MaxTicks /\ monitorServices

Spec == Init /\ [][Next]_vars

----------------------------------------------------------------------------
(* A long run of commands, for the caps of the logs: both Services are     *)
(* provisioned and faults are injected in a fixed rotation, before any     *)
(* timeout fires.                                                          *)

LogIds == {"svc-1", "svc-2"}

\* the Service of the next injection: svc-2 every LogPeriod-th time
LogTarget == IF metrics.failed % LogPeriod = 0 THEN "svc-2" ELSE "svc-1"

NextLog ==
    \/ \E id \in LogIds : provisionService(id)
    \/ Len(eventHistory) < MaxLogEvents /\ injectFault(LogTarget)

SpecLog == Init /\ [][NextLog]_vars
----------------------------------------------------------------------------
(* Timers run: a pending setTimeout callback is not postponed for ever.    *)

TimeoutStep == \E i \in 1..Len(timers) : Timeout(i)

FairSpec == Spec /\ WF_vars(TimeoutStep)

----------------------------------------------------------------------------
(* One Service, longer runs of its commands and timeouts (no terminate,    *)
(* no monitoring).                                                         *)

SvcBudget == Len(eventHistory) < MaxSvcEvents

NextSvc ==
    \/ SvcBudget /\ provisionService("svc-1")
    \/ \E n \in ScaleArgs : SvcBudget /\ scaleService("svc-1", n)
    \/ SvcBudget /\ injectFault("svc-1")
    \/ SvcBudget /\ recoverService("svc-1")
    \/ \E i \in 1..Len(timers) : Timeout(i)

SpecSvc == Init /\ [][NextSvc]_vars

----------------------------------------------------------------------------
(* Monitoring: one Service is provisioned, the simulation is started once  *)
(* and the tick runs up to MaxMonTicks times; up to MaxMonFaults faults    *)
(* are injected.                                                           *)

MonIds == {"svc-1", "CRITICAL"}

NextMon ==
    \/ \E id \in MonIds : services = <<>> /\ provisionService(id)
    \/ intervals = {} /\ startSimulation
    \/ \E i \in 1..Len(timers) : Timeout(i)
    \/ ticks < MaxMonTicks /\ monitorServices
    \/ \E id \in MonIds : metrics.failed < MaxMonFaults /\ injectFault(id)

SpecMon == Init /\ [][NextMon]_vars
----------------------------------------------------------------------------
(* Properties *)

CommandOps == {"provisionService", "scaleService", "injectFault", "recoverService",
               "terminateService"}

\* everything a handler can change, the history of which handler ran aside
state == <<services, timers, eventLog, alerts, metrics, simulationRunning,
           monitorInterval, intervals, eventHistory, alertHistory>>

\* the step is a run of handler op for Service id
Ran(op, id) == call'.op = op /\ call'.id = id

Terminated(s) == s.state = "terminated" /\ s.instances = 0

\* the last n entries of seq
LastN(seq, n) == SubSeq(seq, Len(seq) - n + 1, Len(seq))

\* C1: once a Service is terminated (state terminated, instances 0), no step
\* of any handler changes any of its fields.
C1_TerminatedIsAbsorbing ==
    [][\A i \in 1..Len(services) :
          Terminated(services[i]) => services'[i] = services[i]]_vars

\* C2: a command on the id of a terminated Service leaves it terminated with
\* 0 instances and sets no timeout.
C2_CommandsKeepTerminated ==
    [][\A i \in 1..Len(services) :
          (/\ Terminated(services[i])
           /\ call'.op \in CommandOps
           /\ call'.id = services[i].id)
          => /\ Terminated(services'[i])
             /\ timers' = timers]_vars

\* C2 witness: scaleService has run on a terminated Service, after which an
\* event of it is in the log and the Service is terminated.
C2_Witness ==
    /\ call.op = "scaleService"
    /\ Has(call.id)
    /\ Terminated(Svc(call.id))
    /\ Last(eventHistory).message.text = "Scaling service ${serviceId} to ${instances} instances"

\* C3: provisionService(id) on an id already present changes nothing, and
\* after any call of provisionService(id) there is exactly one Service of
\* that id, with one increment of provisioned for each Service.
C3_ProvisionIsIdempotent ==
    [][\A id \in ServiceIds :
          Ran("provisionService", id)
          => /\ Has(id) => UNCHANGED state
             /\ Cardinality({i \in 1..Len(services') : services'[i].id = id}) = 1
             /\ metrics'.provisioned = Len(services')]_vars

\* C4: injectFault(id) on a running Service makes it degraded with one more
\* error, half the throughput and cpu plus 30; one event is logged, one
\* critical alert that names id is raised, and failed grows by 1.
C4_InjectFaultOnRunning ==
    [][\A i \in 1..Len(services) :
          (services[i].state = "running" /\ Ran("injectFault", services[i].id))
          => /\ services'[i].state = "degraded"
             /\ services'[i].errors = services[i].errors + 1
             /\ Twice(services'[i].throughput) = services[i].throughput
             /\ services'[i].cpu = services[i].cpu + 300
             /\ Len(eventHistory') = Len(eventHistory) + 1
             /\ Last(eventLog') = Last(eventHistory')
             /\ Len(alertHistory') = Len(alertHistory) + 1
             /\ Last(alerts') = Last(alertHistory')
             /\ Last(alerts').severity = "critical"
             /\ Last(alerts').message.id = services[i].id
             /\ metrics'.failed = metrics.failed + 1]_vars

\* C4 witness: injectFault has run on a Service that was running.
C4_Witness ==
    /\ call.op = "injectFault"
    /\ Has(call.id)
    /\ Svc(call.id).state = "degraded"
    /\ Svc(call.id).errors = 1
    /\ ~AtMost(Tenths(8000), Svc(call.id).throughput)
    /\ metrics.failed = 1

\* C5: recoverService(id) changes nothing unless id is a Service that is
\* degraded when it is called.
C5_RecoverOnlyWhenDegraded ==
    [][\A id \in ServiceIds :
          (Ran("recoverService", id) /\ ~(Has(id) /\ Svc(id).state = "degraded"))
          => UNCHANGED state]_vars

\* C5 witness: recoverService has run on a running Service (a degraded one
\* stays degraded through the call).
C5_Witness ==
    /\ call.op = "recoverService"
    /\ Has(call.id)
    /\ Svc(call.id).state = "running"

\* C6 as stated: when the timeout of a recovery has run, the Service is
\* running with 0 errors and a throughput of exactly 1000.
C6_RecoveredThroughputExact ==
    [][\A i \in 1..Len(services) :
          Ran("recover", services[i].id)
          => /\ services'[i].state = "running"
             /\ services'[i].errors = 0
             /\ services'[i].throughput = Tenths(10000)]_vars

\* C6 amended: when the timeout of a recovery has run, the Service is running
\* with 0 errors and a throughput within 50 of 1000: 1000 as refreshed once.
C6_RecoveredThroughputRefreshed ==
    [][\A i \in 1..Len(services) :
          Ran("recover", services[i].id)
          => /\ services'[i].state = "running"
             /\ services'[i].errors = 0
             /\ AtMost(Tenths(9500), services'[i].throughput)
             /\ ~AtMost(Tenths(10500), services'[i].throughput)]_vars

\* C6 witness: the timeout of a recovery has run and the throughput is no
\* longer 1000.
C6_Witness ==
    /\ call.op = "recover"
    /\ metrics.recovered = 1
    /\ Svc(call.id).state = "running"
    /\ Svc(call.id).throughput # Tenths(10000)

\* C7: the event log holds at most 100 entries and the alert log at most 50,
\* and each is the most recent min(cap, total) entries pushed, in order.
C7_LogsKeepMostRecent ==
    /\ Len(eventLog) <= 100
    /\ Len(alerts) <= 50
    /\ eventLog = LastN(eventHistory, Min(100, Len(eventHistory)))
    /\ alerts = LastN(alertHistory, Min(50, Len(alertHistory)))

\* C7 witness: more than 100 events and more than 50 alerts were pushed, of
\* two Services.
C7_Witness ==
    /\ Len(eventHistory) > 100
    /\ Len(alertHistory) > 50
    /\ \E i, j \in 1..Len(alerts) : alerts[i].message.id # alerts[j].message.id
    /\ Head(eventLog) # Head(eventHistory)

\* C8: scaleService, injectFault, recoverService and terminateService on an
\* id that is no entry of services change nothing.
C8_UnknownIdChangesNothing ==
    [][\A id \in ServiceIds :
          (/\ ~Has(id)
           /\ call'.op \in {"scaleService", "injectFault", "recoverService",
                            "terminateService"}
           /\ call'.id = id)
          => UNCHANGED state]_vars

\* C9: startSimulation while the simulation is running starts no second
\* interval timer and logs no second event; at most one interval timer is live.
C9_StartIsIdempotent ==
    [][(call'.op = "startSimulation" /\ simulationRunning)
       => /\ intervals' = intervals
          /\ eventHistory' = eventHistory
          /\ Cardinality(intervals') <= 1]_vars

\* C10: the simulation is marked running exactly when an interval timer is
\* live, so that no tick runs after stopSimulation.
C10_RunningIffIntervalLive == simulationRunning <=> intervals # {}

\* C11: a new Service is provisioning with 1 instance, and a provisioning
\* Service stays so through every step but its provisioning timeout, which
\* makes it running, and terminateService.
C11_ProvisioningUntilCompletion ==
    [][/\ \A i \in 1..Len(services') :
             i > Len(services)
             => services'[i].state = "provisioning" /\ services'[i].instances = 1
       /\ \A i \in 1..Len(services) :
             services[i].state = "provisioning"
             => /\ services[i].instances = 1
                /\ \/ services'[i] = services[i]
                   \/ /\ Ran("provision", services[i].id)
                      /\ services'[i].state = "running"
                      /\ services'[i].instances = 1
                   \/ Ran("terminateService", services[i].id)]_vars

\* C11 witness: injectFault has run on a Service that is still provisioning,
\* with its provisioning timeout pending.
C11_Witness ==
    /\ call.op = "injectFault"
    /\ Has(call.id)
    /\ Svc(call.id).state = "provisioning"
    /\ Svc(call.id).instances = 1
    /\ \E k \in 1..Len(timers) : timers[k] = Timer(call.id, "provision", 0)

\* the state of Service s does not permit command op
NotPermitted(op, s) ==
    \/ op \in {"scaleService", "injectFault"} /\ s.state # "running"
    \/ op = "recoverService" /\ s.state # "degraded"
    \/ op = "terminateService" /\ s.state = "terminated"

\* C12 as stated: a command on a Service whose state does not permit it
\* changes neither the Service nor the logs nor the counters.
C12_InvalidCommandIsSilent ==
    [][\A i \in 1..Len(services) :
          (call'.id = services[i].id /\ NotPermitted(call'.op, services[i]))
          => UNCHANGED state]_vars

\* C13: instances is never negative and is 0 only in state terminated, and it
\* changes only in a scale timeout (to the n asked for) or in terminate (to 0).
C13_InstanceCount ==
    [][\A i \in 1..Len(services') :
          /\ services'[i].instances >= 0
          /\ services'[i].instances = 0 => services'[i].state = "terminated"
          /\ (i <= Len(services) /\ services'[i].instances # services[i].instances)
             => \/ Ran("scale", services[i].id) /\ services'[i].instances = call'.n
                \/ Ran("terminateService", services[i].id) /\ services'[i].instances = 0]_vars

\* C12 amended: a command on a Service whose state does not permit it changes
\* neither the fields of the Service nor the pending timeouts; recoverService
\* changes nothing at all, scaleService and terminateService log one event,
\* injectFault logs one event, raises one alert and counts one failure.
C12_InvalidCommandKeepsService ==
    [][\A i \in 1..Len(services) :
          (call'.id = services[i].id /\ NotPermitted(call'.op, services[i]))
          => /\ services' = services
             /\ timers' = timers
             /\ call'.op = "recoverService" => UNCHANGED state
             /\ call'.op \in {"scaleService", "terminateService"}
                => /\ Len(eventHistory') = Len(eventHistory) + 1
                   /\ UNCHANGED <<alerts, alertHistory, metrics>>
             /\ call'.op = "injectFault"
                => /\ Len(eventHistory') = Len(eventHistory) + 1
                   /\ Len(alertHistory') = Len(alertHistory) + 1
                   /\ metrics' = [metrics EXCEPT !.failed = @ + 1]]_vars

\* C12 witness: injectFault has run on a provisioning Service, which it left
\* as it was, and has logged, alerted and counted.
C12_Witness ==
    /\ call.op = "injectFault"
    /\ Has(call.id)
    /\ Svc(call.id) = NewService(call.id)
    /\ metrics.failed = 1
    /\ Len(alerts) = 1

WarningTexts ==
    {"WARNING: Service ${service.id} high CPU: ${service.cpu.toFixed(1)}%",
     "WARNING: Service ${service.id} high memory: ${service.memory.toFixed(1)}%"}

\* C14: every alert of injectFault is critical and every alert of the
\* monitoring tick is a warning, whatever the id of the Service.
C14_SeverityFollowsOrigin ==
    \A k \in 1..Len(alertHistory) :
        /\ alertHistory[k].message.text = "CRITICAL: Service ${serviceId} in degraded state"
           => alertHistory[k].severity = "critical"
        /\ alertHistory[k].message.text \in WarningTexts
           => alertHistory[k].severity = "warning"

\* C15: cpu and memory of every Service are within [0, 100], and the
\* throughput of a running Service is within [800, 2000].
C15_MetricsInRange ==
    \A i \in 1..Len(services) :
        /\ services[i].cpu >= 0 /\ services[i].cpu <= 1000
        /\ services[i].memory >= 0 /\ services[i].memory <= 1000
        /\ services[i].state = "running"
           => /\ AtMost(Tenths(8000), services[i].throughput)
              /\ AtMost(services[i].throughput, Tenths(20000))

\* a timeout of the given kind is pending for Service id
PendingTimer(id, kind) == \E k \in 1..Len(timers) : timers[k].id = id /\ timers[k].kind = kind

\* Service id waits for a delayed transition
InTransition(id) ==
    /\ Has(id)
    /\ \/ Svc(id).state \in {"provisioning", "scaling"}
       \/ Svc(id).state = "degraded" /\ PendingTimer(id, "recover")

\* C16: when timers run, a Service that is provisioning or scaling, or that
\* is degraded with a recovery pending, is later running, or terminated.
C16_DelayedTransitionsComplete ==
    \A id \in ServiceIds :
        InTransition(id) ~> (Has(id) /\ Svc(id).state \in {"running", "terminated"})

\* C16 witness: a Service that was degraded with a recovery pending has
\* become running through the timeout of the recovery.
C16_Witness ==
    /\ call.op = "recover"
    /\ Has(call.id)
    /\ Svc(call.id).state = "running"
    /\ metrics.failed = 1
    /\ metrics.recovered = 1
    /\ timers = <<>>

\* the state a timeout of the given kind is set in
Source(kind) ==
    CASE kind = "provision" -> "provisioning"
      [] kind = "scale" -> "scaling"
      [] kind = "recover" -> "degraded"

\* C17: a timeout that runs when the Service is not in the state it was set
\* in changes nothing, and a Service becomes running only through the timeout
\* set in its state (the scale timeout also assigns instances).
C17_CompletionsRecheckState ==
    [][\A i \in 1..Len(services) :
          /\ (/\ call'.op \in TimeoutOps
              /\ call'.id = services[i].id
              /\ services[i].state # Source(call'.op))
             => services'[i] = services[i]
          /\ (services[i].state # "running" /\ services'[i].state = "running")
             => /\ call'.op \in TimeoutOps
                /\ call'.id = services[i].id
                /\ Source(call'.op) = services[i].state
                /\ call'.op = "scale" => services'[i].instances = call'.n]_vars

\* C18: scaleService on a running Service makes it scaling at once, instances
\* unchanged; commands other than terminateService leave a scaling Service as
\* it is; the scale timeout of a scaling Service makes it running with n
\* instances and cpu = max(20, cpu - 10 * (n - 1)), refreshed once.
C18_ScaleCompletes ==
    [][\A i \in 1..Len(services) :
          LET s == services[i]
              c == Max(200, s.cpu - 100 * (call'.n - 1))
          IN /\ (s.state = "running" /\ Ran("scaleService", s.id))
                => /\ services'[i] = [s EXCEPT !.state = "scaling"]
                   /\ timers' = Append(timers, Timer(s.id, "scale", call'.n))
             /\ (/\ s.state = "scaling"
                 /\ call'.op \in {"scaleService", "injectFault", "recoverService"}
                 /\ call'.id = s.id)
                => services'[i] = s
             /\ (s.state = "scaling" /\ Ran("scale", s.id))
                => /\ services'[i].state = "running"
                   /\ services'[i].instances = call'.n
                   /\ services'[i].cpu >= Min(950, Max(400, c - 50))
                   /\ services'[i].cpu <= Min(950, Max(400, c + 50))]_vars

\* C18 witness: the timeout of scaleService(id, 3) has run.
C18_Witness ==
    /\ call.op = "scale"
    /\ call.n = 3
    /\ Has(call.id)
    /\ Svc(call.id).state = "running"
    /\ Svc(call.id).instances = 3

\* C19: no Service has more than one timeout pending, and recoverService on
\* a Service whose recovery is pending sets no timeout and counts nothing.
C19_OnePendingCompletion ==
    [][/\ \A id \in ServiceIds :
             Cardinality({k \in 1..Len(timers') : timers'[k].id = id}) <= 1
       /\ \A id \in ServiceIds :
             (Ran("recoverService", id) /\ PendingTimer(id, "recover"))
             => timers' = timers /\ metrics'.recovered = metrics.recovered]_vars

\* C20: errors is 0 or 1, and 0 in the states running, provisioning and
\* scaling.
C20_NoErrorsWhileRunning ==
    \A i \in 1..Len(services) :
        /\ services[i].errors \in {0, 1}
        /\ services[i].state \in {"running", "provisioning", "scaling"}
           => services[i].errors = 0
====
